---------------------------- MODULE Spec2Model ----------------------------
(***************************************************************************)
(* Model of open_canon_schema/model_definitions.py: the pydantic entity    *)
(* hierarchy Manifest > Volume > Book > Section > Chapter > Verse, the     *)
(* file-path resolver FilePathReferencable.validate_id and the footnote    *)
(* check Verse.validate_footnotes.                                         *)
(*                                                                         *)
(* Python values are tagged records [t, v]:                                *)
(*   "str"   a str; v is its sequence of symbols (a symbol is one or more  *)
(*           characters that the model never splits)                       *)
(*   "path"  a pathlib.Path; v is the path's symbols                       *)
(*   "null"  None                                                          *)
(*   "num"   an int                                                        *)
(*   "arr"   a list; v is the sequence of items                            *)
(*   "obj"   a dict with str keys; v is the sequence of <<key, value>>     *)
(*           pairs in insertion order, keys distinct                      *)
(*   a class name ("Verse", ...): a validated instance of that class; v is *)
(*           the sequence of <<field name, value>> pairs                   *)
(***************************************************************************)
EXTENDS Integers, Sequences, FiniteSets, TLC

VARIABLES fs, last, prev, stack, walk

vars == <<fs, last, prev, stack, walk>>

-----------------------------------------------------------------------------
(* Python values *)

Str(s) == [t |-> "str", v |-> s]
PathV(s) == [t |-> "path", v |-> s]
Null == [t |-> "null", v |-> <<>>]
Num(n) == [t |-> "num", v |-> n]
Arr(items) == [t |-> "arr", v |-> items]
Obj(pairs) == [t |-> "obj", v |-> pairs]
Instance(cls, pairs) == [t |-> cls, v |-> pairs]

\* A one-symbol string: field names, titles, file names.
K(x) == <<x>>

\* key in d
HasKey(pairs, k) == \E i \in 1..Len(pairs) : pairs[i][1] = k

\* d[key]
Get(pairs, k) == pairs[CHOOSE i \in 1..Len(pairs) : pairs[i][1] = k][2]

\* d[key] = value: an existing key keeps its position, a new key is appended.
DictSet(pairs, k, val) ==
    IF HasKey(pairs, k)
    THEN [i \in 1..Len(pairs) |-> IF pairs[i][1] = k THEN <<k, val>> ELSE pairs[i]]
    ELSE Append(pairs, <<k, val>>)

-----------------------------------------------------------------------------
(* json.loads / the JSON document format, at the level of tokens *)

LB == [k |-> "{", v |-> <<>>]
RB == [k |-> "}", v |-> <<>>]
LS == [k |-> "[", v |-> <<>>]
RS == [k |-> "]", v |-> <<>>]
COLON == [k |-> ":", v |-> <<>>]
COMMA == [k |-> ",", v |-> <<>>]
TNull == [k |-> "null", v |-> <<>>]
TStr(s) == [k |-> "string", v |-> s]
TNum(n) == [k |-> "number", v |-> n]

ParseFail == [ok |-> FALSE, val |-> Null, rest |-> <<>>]
Parsed(val, rest) == [ok |-> TRUE, val |-> val, rest |-> rest]

RECURSIVE ParseValue(_), ParseMembers(_, _), ParseElements(_, _)

\* One JSON value at the head of toks.
ParseValue(toks) ==
    IF toks = <<>> THEN ParseFail
    ELSE LET h == Head(toks)
             r == Tail(toks)
         IN CASE h.k = "string" -> Parsed(Str(h.v), r)
              [] h.k = "number" -> Parsed(Num(h.v), r)
              [] h.k = "null" -> Parsed(Null, r)
              [] h.k = "{" ->
                    IF r # <<>> /\ Head(r).k = "}"
                    THEN Parsed(Obj(<<>>), Tail(r))
                    ELSE ParseMembers(r, <<>>)
              [] h.k = "[" ->
                    IF r # <<>> /\ Head(r).k = "]"
                    THEN Parsed(Arr(<<>>), Tail(r))
                    ELSE ParseElements(r, <<>>)
              [] OTHER -> ParseFail

\* string ":" value, then "," and more members or "}".
ParseMembers(toks, acc) ==
    IF Len(toks) < 2 \/ toks[1].k # "string" \/ toks[2].k # ":" THEN ParseFail
    ELSE LET pv == ParseValue(SubSeq(toks, 3, Len(toks)))
         IN IF ~pv.ok \/ pv.rest = <<>> THEN ParseFail
            ELSE LET acc2 == DictSet(acc, toks[1].v, pv.val)
                     sep == Head(pv.rest)
                 IN CASE sep.k = "}" -> Parsed(Obj(acc2), Tail(pv.rest))
                      [] sep.k = "," -> ParseMembers(Tail(pv.rest), acc2)
                      [] OTHER -> ParseFail

\* value, then "," and more elements or "]".
ParseElements(toks, acc) ==
    LET pv == ParseValue(toks)
    IN IF ~pv.ok \/ pv.rest = <<>> THEN ParseFail
       ELSE LET acc2 == Append(acc, pv.val)
                sep == Head(pv.rest)
            IN CASE sep.k = "]" -> Parsed(Arr(acc2), Tail(pv.rest))
                 [] sep.k = "," -> ParseElements(Tail(pv.rest), acc2)
                 [] OTHER -> ParseFail

\* json.loads(text): the document is one value and nothing after it.
Loads(toks) ==
    LET pv == ParseValue(toks)
    IN IF pv.ok /\ pv.rest = <<>> THEN pv ELSE ParseFail

RECURSIVE Dumps(_), DumpMembers(_), DumpElements(_)

\* The document json.loads reads back as val (val holds no Path and no instance).
Dumps(val) ==
    CASE val.t = "str" -> <<TStr(val.v)>>
      [] val.t = "num" -> <<TNum(val.v)>>
      [] val.t = "null" -> <<TNull>>
      [] val.t = "obj" -> <<LB>> \o DumpMembers(val.v) \o <<RB>>
      [] val.t = "arr" -> <<LS>> \o DumpElements(val.v) \o <<RS>>

DumpMembers(pairs) ==
    IF pairs = <<>> THEN <<>>
    ELSE <<TStr(pairs[1][1]), COLON>> \o Dumps(pairs[1][2])
         \o (IF Len(pairs) = 1 THEN <<>> ELSE <<COMMA>> \o DumpMembers(Tail(pairs)))

DumpElements(items) ==
    IF items = <<>> THEN <<>>
    ELSE Dumps(items[1])
         \o (IF Len(items) = 1 THEN <<>> ELSE <<COMMA>> \o DumpElements(Tail(items)))

-----------------------------------------------------------------------------
(* The schema: field declarations of the six classes *)

StrT == [k |-> "str"]
NoneT == [k |-> "none"]
DictT(of) == [k |-> "dict", of |-> of]
ListT(of) == [k |-> "list", of |-> of]
ModelT(cls) == [k |-> "model", cls |-> cls]
UnionT(alts) == [k |-> "union", alts |-> alts]

\* str | None
OptStrT == UnionT(<<StrT, NoneT>>)

\* dict[str, str] | None
OptStrDictT == UnionT(<<DictT(StrT), NoneT>>)

\* A field with no default is required, also when its type admits None.
Required(name, ty) == [name |-> K(name), ty |-> ty, required |-> TRUE]

\* A field declared with default=None.
Defaulted(name, ty) == [name |-> K(name), ty |-> ty, required |-> FALSE]

VerseFields ==
    << Required("text", StrT),
       Required("footnotes", OptStrDictT) >>

ChapterFields ==
    << Required("title", OptStrT),
       Required("header", OptStrT),
       Required("verses", DictT(ModelT("Verse"))) >>

SectionFields ==
    << Required("title", OptStrT),
       Required("header", OptStrT),
       Required("chapters", ListT(ModelT("Chapter"))) >>

BookFields ==
    << Required("title", StrT),
       Required("chapters", DictT(ModelT("Chapter"))),
       Required("sections", UnionT(<<DictT(ModelT("Section")), NoneT>>)),
       Required("short_title", OptStrT),
       Required("language", StrT),
       Defaulted("header", OptStrT),
       Defaulted("footer", OptStrT),
       Defaulted("author", UnionT(<<StrT, ListT(StrT), NoneT>>)),
       Defaulted("metadata", OptStrDictT) >>

VolumeFields ==
    << Required("title", StrT),
       Required("books", DictT(ModelT("Book"))) >>

ManifestFields ==
    << Required("volumes", DictT(ModelT("Volume"))),
       Required("books", DictT(ModelT("Book"))),
       Defaulted("metadata", OptStrDictT) >>

Classes == {"Verse", "Chapter", "Section", "Book", "Volume", "Manifest"}

Fields(cls) ==
    CASE cls = "Verse" -> VerseFields
      [] cls = "Chapter" -> ChapterFields
      [] cls = "Section" -> SectionFields
      [] cls = "Book" -> BookFields
      [] cls = "Volume" -> VolumeFields
      [] cls = "Manifest" -> ManifestFields

\* Mutant of Referencable: Section does not derive from FilePathReferencable.
ReferencableNoSection(cls) == cls \in {"Chapter", "Book", "Volume"}

\* The classes that derive from FilePathReferencable.
Referencable(cls) == cls \in {"Chapter", "Section", "Book", "Volume"}

-----------------------------------------------------------------------------
(* The file system read by validate_id *)

Missing == [st |-> "missing", toks |-> <<>>]
Unreadable == [st |-> "unreadable", toks |-> <<>>]
File(toks) == [st |-> "file", toks |-> toks]

\* Mutant of ReadText: a file that the call before has read is exhausted and
\* reads as empty text.
ReadTextOnce(files, p) ==
    IF p \notin DOMAIN files THEN Missing
    ELSE IF files[p].st = "file" /\ \E i \in 1..Len(last.res.reads) : last.res.reads[i] = p
         THEN File(<<>>)
         ELSE files[p]

\* pathlib.Path(p).read_text(): the file's text, or why it cannot be read.
ReadText(files, p) == IF p \in DOMAIN files THEN files[p] ELSE Missing

-----------------------------------------------------------------------------
(* Outcomes of validation                                                  *)
(*   st = "ok"       val is the validated value                            *)
(*   st = "invalid"  pydantic's ValidationError; errs are its line errors  *)
(*   st = "raised"   another exception left the validator; errs names it   *)
(* warns are the warnings.warn calls and reads the read_text calls made,   *)
(* both in order.                                                          *)

R(st, val, errs, warns, reads) ==
    [st |-> st, val |-> val, errs |-> errs, warns |-> warns, reads |-> reads]

Ok(val) == R("ok", val, <<>>, <<>>, <<>>)
Err(loc, ty) == [loc |-> loc, ty |-> ty]
Invalid(loc, ty) == R("invalid", Null, <<Err(loc, ty)>>, <<>>, <<>>)

\* Mutant of Then: validation stops collecting at the first line error.
ThenFirstError(acc, r) ==
    [st |-> IF r.st = "raised" THEN "raised"
            ELSE IF acc.st = "invalid" \/ r.st = "invalid" THEN "invalid" ELSE "ok",
     val |-> acc.val,
     errs |-> IF r.st = "raised" THEN r.errs
              ELSE IF acc.errs # <<>> THEN acc.errs ELSE r.errs,
     warns |-> acc.warns \o r.warns,
     reads |-> acc.reads \o r.reads]

\* r happened after acc: side effects add up, line errors are collected, and
\* an exception that is not a validation error replaces everything collected.
Then(acc, r) ==
    [st |-> IF r.st = "raised" THEN "raised"
            ELSE IF acc.st = "invalid" \/ r.st = "invalid" THEN "invalid" ELSE "ok",
     val |-> acc.val,
     errs |-> IF r.st = "raised" THEN r.errs ELSE acc.errs \o r.errs,
     warns |-> acc.warns \o r.warns,
     reads |-> acc.reads \o r.reads]

\* needle in haystack, for str
Contains(haystack, needle) ==
    \E i \in 0..(Len(haystack) - Len(needle)) :
        SubSeq(haystack, i + 1, i + Len(needle)) = needle

\* Mutant of Marker: the closing bracket is left out.
MarkerOpen(key) == <<"[", "^">> \o key

\* f"[^{key}]"
Marker(key) == <<"[", "^">> \o key \o <<"]">>

\* f"Footnote key '{key}' not found in verse text."
WarningText(key) == <<"Footnote key '">> \o key \o <<"' not found in verse text.">>

RECURSIVE WarnFrom(_, _, _)
WarnFrom(text, notes, i) ==
    IF i > Len(notes) THEN <<>>
    ELSE (IF Contains(text, Marker(notes[i][1])) THEN <<>>
          ELSE <<WarningText(notes[i][1])>>)
         \o WarnFrom(text, notes, i + 1)

\* Verse.validate_footnotes: the warnings it emits; self is returned as it is.
validate_footnotes(self) ==
    LET footnotes == Get(self.v, K("footnotes"))
        text == Get(self.v, K("text"))
    IN IF footnotes.t = "null" THEN <<>>
       ELSE WarnFrom(text.v, footnotes.v, 1)

\* Mutant of validate_id: the path is handed on as it is, no file is read.
validate_id_unresolved(data, files, loc) == Ok(data)

\* Mutant of validate_id: the OSError of the read is turned into a ValueError.
validate_id_wrapping(data, files, loc) ==
    IF data.t \in {"str", "path"}
    THEN LET f == ReadText(files, data.v)
         IN IF f.st = "file" /\ Loads(f.toks).ok
            THEN R("ok", Loads(f.toks).val, <<>>, <<>>, <<data.v>>)
            ELSE R("invalid", Null, <<Err(loc, "value_error")>>, <<>>, <<data.v>>)
    ELSE Ok(data)

\* Mutant of validate_id: a document that is itself a string is taken for a
\* path and resolved once more.
validate_id_chasing(data, files, loc) ==
    IF data.t \in {"str", "path"}
    THEN LET f == ReadText(files, data.v)
         IN IF f.st # "file"
            THEN R("raised", Null, <<Err(loc, "FileNotFoundError")>>, <<>>, <<data.v>>)
            ELSE IF ~Loads(f.toks).ok
            THEN R("invalid", Null, <<Err(loc, "value_error")>>, <<>>, <<data.v>>)
            ELSE LET doc == Loads(f.toks).val
                     g == ReadText(files, doc.v)
                 IN IF doc.t = "str" /\ g.st = "file" /\ Loads(g.toks).ok
                    THEN R("ok", Loads(g.toks).val, <<>>, <<>>, <<data.v, doc.v>>)
                    ELSE R("ok", doc, <<>>, <<>>, <<data.v>>)
    ELSE Ok(data)

\* FilePathReferencable.validate_id: the data handed on to field validation.
validate_id(data, files, loc) ==
    IF data.t \in {"str", "path"}
    THEN LET f == ReadText(files, data.v)
         IN IF f.st = "missing"
            THEN R("raised", Null, <<Err(loc, "FileNotFoundError")>>, <<>>, <<data.v>>)
            ELSE IF f.st = "unreadable"
            THEN R("raised", Null, <<Err(loc, "PermissionError")>>, <<>>, <<data.v>>)
            ELSE LET pv == Loads(f.toks)
                 IN IF pv.ok
                    THEN R("ok", pv.val, <<>>, <<>>, <<data.v>>)
                    ELSE R("invalid", Null, <<Err(loc, "value_error")>>, <<>>, <<data.v>>)
    ELSE Ok(data)

RECURSIVE Validate(_, _, _, _), ValidateModel(_, _, _, _),
          FieldsFrom(_, _, _, _, _, _), ItemsFrom(_, _, _, _, _, _),
          MembersFrom(_, _, _, _, _, _), UnionFrom(_, _, _, _, _, _),
          MembersFromLenient(_, _, _, _, _, _)

\* data validated as type ty at location loc of the input.
Validate(ty, data, files, loc) ==
    CASE ty.k = "str" ->
            IF data.t = "str" THEN Ok(data) ELSE Invalid(loc, "string_type")
      [] ty.k = "none" ->
            IF data.t = "null" THEN Ok(data) ELSE Invalid(loc, "none_required")
      [] ty.k = "dict" ->
            IF data.t = "obj"
            THEN MembersFrom(ty.of, data.v, 1, files, loc, Ok(<<>>))
            ELSE Invalid(loc, "dict_type")
      [] ty.k = "list" ->
            IF data.t = "arr"
            THEN ItemsFrom(ty.of, data.v, 1, files, loc, Ok(<<>>))
            ELSE Invalid(loc, "list_type")
      [] ty.k = "model" -> ValidateModel(ty.cls, data, files, loc)
      [] ty.k = "union" -> UnionFrom(ty.alts, 1, data, files, loc, Ok(<<>>))

\* Mutant of MembersFrom: a value that does not validate is left out of the
\* dict instead of failing it.
MembersFromLenient(of, pairs, i, files, loc, acc) ==
    IF i > Len(pairs) THEN [acc EXCEPT !.val = Obj(acc.val)]
    ELSE LET r == Validate(of, pairs[i][2], files, Append(loc, Str(pairs[i][1])))
         IN IF r.st = "raised"
            THEN R("raised", Null, r.errs, acc.warns \o r.warns, acc.reads \o r.reads)
            ELSE MembersFromLenient(of, pairs, i + 1, files, loc,
                     R("ok",
                       IF r.st = "ok" THEN Append(acc.val, <<pairs[i][1], r.val>>)
                       ELSE acc.val,
                       <<>>, acc.warns \o r.warns, acc.reads \o r.reads))

\* dict[str, of]: every value is validated, in order; an exception stops it.
MembersFrom(of, pairs, i, files, loc, acc) ==
    IF i > Len(pairs)
    THEN [acc EXCEPT !.val = IF acc.st = "ok" THEN Obj(acc.val) ELSE Null]
    ELSE LET r == Validate(of, pairs[i][2], files, Append(loc, Str(pairs[i][1])))
             acc2 == Then(acc, r)
         IN IF acc2.st = "raised" THEN [acc2 EXCEPT !.val = Null]
            ELSE MembersFrom(of, pairs, i + 1, files, loc,
                     [acc2 EXCEPT !.val = IF acc2.st = "ok"
                                          THEN Append(acc.val, <<pairs[i][1], r.val>>)
                                          ELSE <<>>])

\* list[of]: every item is validated, in order; an exception stops it.
ItemsFrom(of, items, i, files, loc, acc) ==
    IF i > Len(items)
    THEN [acc EXCEPT !.val = IF acc.st = "ok" THEN Arr(acc.val) ELSE Null]
    ELSE LET r == Validate(of, items[i], files, Append(loc, Num(i - 1)))
             acc2 == Then(acc, r)
         IN IF acc2.st = "raised" THEN [acc2 EXCEPT !.val = Null]
            ELSE ItemsFrom(of, items, i + 1, files, loc,
                     [acc2 EXCEPT !.val = IF acc2.st = "ok"
                                          THEN Append(acc.val, r.val)
                                          ELSE <<>>])

\* A union: the first member that accepts the data; the line errors of all
\* members when none does. acc holds the failed members' errors and effects.
UnionFrom(alts, i, data, files, loc, acc) ==
    IF i > Len(alts) THEN [acc EXCEPT !.val = Null]
    ELSE LET r == Validate(alts[i], data, files, loc)
         IN IF r.st = "ok"
            THEN R("ok", r.val, <<>>, acc.warns \o r.warns, acc.reads \o r.reads)
            ELSE IF r.st = "raised"
            THEN R("raised", Null, r.errs, acc.warns \o r.warns, acc.reads \o r.reads)
            ELSE UnionFrom(alts, i + 1, data, files, loc, Then(acc, r))

\* The fields of cls from the mapping pairs, in declaration order: a key that
\* is present is validated, an absent one takes its default or is reported
\* missing; keys that are no field are ignored.
FieldsFrom(cls, i, pairs, files, loc, acc) ==
    IF i > Len(Fields(cls))
    THEN [acc EXCEPT !.val = IF acc.st = "ok" THEN Instance(cls, acc.val) ELSE Null]
    ELSE LET fd == Fields(cls)[i]
             r == IF HasKey(pairs, fd.name)
                  THEN Validate(fd.ty, Get(pairs, fd.name), files,
                                Append(loc, Str(fd.name)))
                  ELSE IF fd.required
                  THEN Invalid(Append(loc, Str(fd.name)), "missing")
                  ELSE Ok(Null)
             acc2 == Then(acc, r)
         IN IF acc2.st = "raised" THEN [acc2 EXCEPT !.val = Null]
            ELSE FieldsFrom(cls, i + 1, pairs, files, loc,
                     [acc2 EXCEPT !.val = IF acc2.st = "ok"
                                          THEN Append(acc.val, <<fd.name, r.val>>)
                                          ELSE <<>>])

\* cls.model_validate(data) at loc: the "before" validator of a referencable
\* class, the fields, then the "after" validator of Verse.
ValidateModel(cls, data, files, loc) ==
    LET pre == IF Referencable(cls) THEN validate_id(data, files, loc) ELSE Ok(data)
    IN IF pre.st # "ok" THEN pre
       ELSE IF pre.val.t # "obj"
       THEN Then(R("ok", Null, <<>>, <<>>, pre.reads), Invalid(loc, "model_type"))
       ELSE LET body == FieldsFrom(cls, 1, pre.val.v, files, loc,
                                   R("ok", <<>>, <<>>, <<>>, pre.reads))
            IN IF body.st = "ok" /\ cls = "Verse"
               THEN [body EXCEPT !.warns = body.warns \o validate_footnotes(body.val)]
               ELSE body

\* cls(**data) or cls.model_validate(data), called by the user of the library.
ConstructModel(cls, data, files) == ValidateModel(cls, data, files, <<>>)

-----------------------------------------------------------------------------
(* Documents, files and construction inputs of the checked runs *)

PA == K("a.json")
PB == K("b.json")
Paths == {PA, PB}

VerseD(text, footnotes) ==
    Obj(<< <<K("text"), Str(text)>>, <<K("footnotes"), footnotes>> >>)

Note == Str(K("note"))

\* "x[^1]" with footnote 1: the marker is there.
VCited == VerseD(<<"x", "[", "^", "1", "]">>, Obj(<< <<K("1"), Note>> >>))

\* "x[^2]" with footnotes 1 and 2: footnote 1 is not cited.
VUncited ==
    VerseD(<<"x", "[", "^", "2", "]">>, Obj(<< <<K("1"), Note>>, <<K("2"), Note>> >>))

\* A chapter of two verses.
DChapter ==
    Obj(<< <<K("title"), Str(K("Ch"))>>,
           <<K("header"), Null>>,
           <<K("verses"), Obj(<< <<K("1"), VCited>>, <<K("2"), VUncited>> >>)>> >>)

\* A book whose two chapters are both the file b.json.
DBook ==
    Obj(<< <<K("title"), Str(K("Bk"))>>,
           <<K("chapters"), Obj(<< <<K("1"), Str(PB)>>, <<K("2"), Str(PB)>> >>)>>,
           <<K("sections"), Null>>,
           <<K("short_title"), Null>>,
           <<K("language"), Str(K("en"))>> >>)

\* A section of two chapters, the first one the file a.json.
DSection ==
    Obj(<< <<K("title"), Null>>,
           <<K("header"), Null>>,
           <<K("chapters"), Arr(<<Str(PA), DChapter>>)>> >>)

\* A document with the keys of a Volume, a Book and a Chapter at once, whose
\* books and chapters are the file a.json: stored as a.json it names itself.
DSelf ==
    Obj(<< <<K("title"), Str(K("U"))>>,
           <<K("header"), Null>>,
           <<K("short_title"), Null>>,
           <<K("language"), Str(K("en"))>>,
           <<K("sections"), Obj(<< <<K("s"), Str(PB)>> >>)>>,
           <<K("verses"), Obj(<< <<K("1"), VUncited>> >>)>>,
           <<K("chapters"), Obj(<< <<K("c"), Str(PA)>> >>)>>,
           <<K("books"), Obj(<< <<K("b"), Str(PA)>> >>)>> >>)

\* {"chapters": {}}
DNoTitle == Obj(<< <<K("chapters"), Obj(<<>>)>> >>)

\* A book without title whose chapter is the file b.json.
DNoTitleRef ==
    Obj(<< <<K("chapters"), Obj(<< <<K("1"), Str(PB)>> >>)>>,
           <<K("sections"), Null>>,
           <<K("short_title"), Null>>,
           <<K("language"), Str(K("en"))>> >>)

\* A chapter without its title and header keys.
DBareChapter == Obj(<< <<K("verses"), Obj(<< <<K("1"), VCited>> >>)>> >>)

\* A verse without its footnotes key.
DBareVerse == Obj(<< <<K("text"), Str(K("x"))>> >>)

DManifest ==
    Obj(<< <<K("volumes"), Obj(<< <<K("v"), Str(PA)>> >>)>>,
           <<K("books"), Obj(<< <<K("b"), Str(PA)>> >>)>> >>)

\* A document cut off after its first key.
Truncated == <<LB, TStr(K("title")), COLON>>

\* The documents that are written to files; a document that is only a string
\* (the name of the file itself) is one of them.
StoredDocs == <<DChapter, DSection, DBook, DSelf, Str(PA)>>

\* What a.json can hold: no file, a file that cannot be opened, a document
\* that is not JSON, or one of the stored documents.
Contents ==
    {Missing, Unreadable, File(Truncated)}
        \cup {File(Dumps(StoredDocs[i])) : i \in 1..Len(StoredDocs)}

\* b.json is the chapter or section file that the documents refer to.
ContentsOf(p) ==
    IF p = PA THEN Contents
    ELSE {Missing, Unreadable, File(Truncated), File(Dumps(DChapter)),
          File(Dumps(DSection))}

\* The construction inputs: paths as str and as pathlib.Path, and mappings.
Inputs ==
    << Str(PA), Str(PB), PathV(PA), DChapter, DBook, DSection, DSelf,
       DNoTitle, DNoTitleRef, DBareChapter, DBareVerse, DManifest >>

-----------------------------------------------------------------------------
(* The library and the files it reads, call by call *)

NoRes == R("none", Null, <<>>, <<>>, <<>>)
NoCall == [cls |-> "none", input |-> Null, res |-> NoRes]
Idle == [st |-> "idle", root |-> [cls |-> "none", data |-> Null], reads |-> <<>>, steps |-> 0]

Init ==
    /\ fs = [p \in Paths |-> Missing]
    /\ last = NoCall
    /\ prev = NoRes
    /\ stack = <<>>
    /\ walk = Idle

\* The environment writes, replaces or removes the file p.
WriteFile(p, c) ==
    /\ fs[p] # c
    /\ fs' = [fs EXCEPT ![p] = c]
    /\ last' = NoCall
    /\ prev' = NoRes
    /\ stack' = <<>>
    /\ walk' = Idle

\* One construction call cls(input). last is the latest call made since the
\* files last changed; prev is the outcome of the call before it when that
\* was the same call.
Construct(cls, input) ==
    /\ last' = [cls |-> cls, input |-> input, res |-> ConstructModel(cls, input, fs)]
    /\ prev' = IF last.cls = cls /\ last.input = input THEN last.res ELSE NoRes
    /\ UNCHANGED <<fs, stack, walk>>

Next ==
    \/ \E p \in Paths : \E c \in ContentsOf(p) : WriteFile(p, c)
    \/ \E cls \in Classes, i \in 1..Len(Inputs) : Construct(cls, Inputs[i])

Spec == Init /\ [][Next]_vars

-----------------------------------------------------------------------------
(* Verse construction over all short texts and footnote mappings *)

MaxTextLen == 5
MaxNotes == 2

\* The symbols of a verse text: the characters of a marker and a label.
TextAlphabet == {"[", "^", "1", "]"}

\* Footnote labels: "1", the empty label and "]".
Labels == {<<"1">>, <<>>, <<"]">>}

Texts == UNION {[1..n -> TextAlphabet] : n \in 0..MaxTextLen}

\* The footnote mappings: keys are distinct labels, in any insertion order.
NoteMaps ==
    UNION {{Obj([i \in 1..n |-> <<ks[i], Note>>]) :
               ks \in {f \in [1..n -> Labels] :
                          \A i, j \in 1..n : i # j => f[i] # f[j]}} :
           n \in 0..MaxNotes}

VerseInputs == {VerseD(text, notes) : text \in Texts, notes \in NoteMaps \cup {Null}}

\* Verse(text=..., footnotes=...) has been called and has not returned yet.
InitVerse ==
    /\ fs = [p \in Paths |-> Missing]
    /\ \E input \in VerseInputs : last = [cls |-> "Verse", input |-> input, res |-> NoRes]
    /\ prev = NoRes
    /\ stack = <<>>
    /\ walk = Idle

\* The pending call returns.
Return ==
    /\ last.cls # "none"
    /\ last.res.st = "none"
    /\ last' = [last EXCEPT !.res = ConstructModel(last.cls, last.input, fs)]
    /\ UNCHANGED <<fs, prev, stack, walk>>

NextVerse == Return

SpecVerse == InitVerse /\ [][NextVerse]_vars

\* marker occurs in text at offset a
OccursAt(text, marker, a) ==
    /\ a + Len(marker) <= Len(text)
    /\ \A j \in 1..Len(marker) : text[a + j] = marker[j]

Occurs(text, marker) == \E a \in 0..Len(text) : OccursAt(text, marker, a)

\* The labels of a footnotes value whose marker "[^" + L + "]" is not in text.
Uncited(text, footnotes) ==
    IF footnotes.t = "null" THEN {}
    ELSE {footnotes.v[i][1] : i \in {j \in 1..Len(footnotes.v) :
              ~Occurs(text, <<"[", "^">> \o footnotes.v[j][1] \o <<"]">>)}}

VerseText == Get(last.input.v, K("text"))
VerseNotes == Get(last.input.v, K("footnotes"))

\* C3: constructing a Verse from a text and a footnotes value (a mapping or
\* None) succeeds, returns the Verse with text and footnotes unchanged, and
\* warns exactly once for each footnote label whose marker "[^label]" does not
\* occur in the text: never when footnotes is None, never for a label whose
\* marker occurs, never for a marker in the text that has no footnote.
FootnoteWarningsExact ==
    (last.cls = "Verse" /\ last.res.st # "none" /\ last.input \in VerseInputs) =>
        /\ last.res.st = "ok"
        /\ last.res.val = Instance("Verse", last.input.v)
        /\ Len(last.res.warns) = Cardinality(Uncited(VerseText.v, VerseNotes))
        /\ \A L \in Labels :
              (\E i \in 1..Len(last.res.warns) : last.res.warns[i] = WarningText(L))
                  <=> L \in Uncited(VerseText.v, VerseNotes)

\* A verse with two footnotes of which exactly one is cited has been built.
FootnoteWarningsWitness ==
    /\ last.cls = "Verse"
    /\ last.res.st = "ok"
    /\ VerseNotes.t = "obj"
    /\ Len(VerseNotes.v) = 2
    /\ Len(last.res.warns) = 1
    /\ Occurs(VerseText.v, <<"[", "^", "1", "]">>)

-----------------------------------------------------------------------------
(* Properties of one construction call *)

\* The latest call has returned.
Called == last.cls # "none" /\ last.res.st # "none"

\* isinstance(d, (str, pathlib.Path))
PathLike(d) == d.t \in {"str", "path"}

\* Both fail, or both succeed with equal entities and the same warnings.
SameOutcome(r1, r2) ==
    /\ (r1.st = "ok") <=> (r2.st = "ok")
    /\ r1.st = "ok" => (r1.val = r2.val /\ r1.warns = r2.warns)

\* C1: for T in {Chapter, Book, Volume} and a mapping D, constructing T from
\* the path of a file whose contents are D has the same outcome as
\* constructing T from D inline: both fail, or both succeed with equal
\* entities and the same sequence of footnote warnings.
PathEquivalence ==
    \A i \in 1..Len(StoredDocs) :
        ( /\ Called
          /\ last.cls \in {"Chapter", "Book", "Volume"}
          /\ PathLike(last.input)
          /\ StoredDocs[i].t = "obj"
          /\ ReadText(fs, last.input.v) = File(Dumps(StoredDocs[i])) )
        => SameOutcome(last.res, ConstructModel(last.cls, StoredDocs[i], fs))

\* A Book was built from a.json, which holds the book document, with the
\* warnings of its chapters.
PathEquivalenceWitness ==
    /\ Called
    /\ last.cls = "Book"
    /\ last.input = Str(PA)
    /\ fs[PA] = File(Dumps(DBook))
    /\ last.res.st = "ok"
    /\ last.res.warns # <<>>

\* The file named by the latest call's input cannot be resolved: it does not
\* exist, cannot be read, or does not hold a JSON document.
Unresolvable ==
    /\ Called
    /\ Referencable(last.cls)
    /\ PathLike(last.input)
    /\ ReadText(fs, last.input.v) \in {Missing, Unreadable, File(Truncated)}

\* C2 as stated: constructing a referencable entity from a path that names a
\* nonexistent or unreadable file, or a file that does not hold valid
\* structured data, fails with a ReferenceResolutionError in each case and
\* with no other kind of error.
ResolutionErrorUniform ==
    Unresolvable =>
        /\ last.res.st = "raised"
        /\ last.res.errs = <<Err(<<>>, "ReferenceResolutionError")>>

\* C2 amended: such a construction fails and returns no entity after one read
\* of the named file; the error is the OSError of the read (FileNotFoundError,
\* PermissionError), raised as it is, when the file is missing or unreadable,
\* and pydantic's ValidationError with one value_error at the root when the
\* file does not hold JSON.
ResolutionFailureKinds ==
    Unresolvable =>
        LET f == ReadText(fs, last.input.v)
            kind == CASE f = Missing -> <<"raised", "FileNotFoundError">>
                      [] f = Unreadable -> <<"raised", "PermissionError">>
                      [] OTHER -> <<"invalid", "value_error">>
        IN /\ last.res.st = kind[1]
           /\ last.res.errs = <<Err(<<>>, kind[2])>>
           /\ last.res.val = Null
           /\ last.res.reads = <<last.input.v>>

\* A Chapter was asked of a file that is not JSON.
ResolutionFailureWitness ==
    /\ Unresolvable
    /\ last.cls = "Chapter"
    /\ ReadText(fs, last.input.v) = File(Truncated)
    /\ last.res.st = "invalid"

\* C4 as stated: a string or path given as the construction input of a Verse
\* or of a Section is never read as a file and is rejected as not matching
\* the entity's shape.
ResolutionOnlyChapterBookVolume ==
    (Called /\ last.cls \in {"Verse", "Section"} /\ PathLike(last.input)) =>
        /\ last.res.reads = <<>>
        /\ last.res.st = "invalid"
        /\ last.res.errs = <<Err(<<>>, "model_type")>>

\* C4 amended: file-path resolution is applied to exactly the entity types
\* Chapter, Section, Book and Volume, whose string or path input is read as a
\* file first; a string or path given as the input of a Verse or of a
\* Manifest is never read and is rejected as not matching the entity's shape.
ResolutionClasses ==
    (Called /\ PathLike(last.input)) =>
        IF last.cls \in {"Chapter", "Section", "Book", "Volume"}
        THEN last.res.reads # <<>> /\ last.res.reads[1] = last.input.v
        ELSE /\ last.res.reads = <<>>
             /\ last.res.st = "invalid"
             /\ last.res.errs = <<Err(<<>>, "model_type")>>

\* A Section was built from the path of its file.
ResolutionClassesWitness ==
    /\ Called
    /\ last.cls = "Section"
    /\ last.input = Str(PB)
    /\ last.res.st = "ok"
    /\ last.res.reads[1] = PB

\* The fields C5 lists as optional.
ClaimedOptional(cls) ==
    CASE cls = "Verse" -> {"footnotes"}
      [] cls \in {"Chapter", "Section"} -> {"title", "header"}
      [] cls = "Book" ->
            {"sections", "short_title", "header", "footer", "author", "metadata"}
      [] cls = "Manifest" -> {"metadata"}
      [] OTHER -> {}

\* C5 as stated: omitting an optional field from the construction input does
\* not make construction fail: no error of the call reports one of the
\* optional fields of its entity as missing.
OptionalFieldsOmittable ==
    (Called /\ last.input.t = "obj") =>
        \A i \in 1..Len(last.res.errs) :
            ~ ( /\ last.res.errs[i].ty = "missing"
                /\ Len(last.res.errs[i].loc) = 1
                /\ \E f \in ClaimedOptional(last.cls) :
                       last.res.errs[i].loc[1] = Str(K(f)) )

\* The required fields of cls that the mapping does not have.
MissingRequired(cls, pairs) ==
    {Fields(cls)[i].name :
        i \in {j \in 1..Len(Fields(cls)) :
                  Fields(cls)[j].required /\ ~HasKey(pairs, Fields(cls)[j].name)}}

\* The latest call's errors report field f of the input as missing.
NamedMissing(f) ==
    \E i \in 1..Len(last.res.errs) : last.res.errs[i] = Err(<<Str(f)>>, "missing")

\* The latest call was given a mapping that lacks required fields.
LacksRequired ==
    /\ Called
    /\ last.input.t = "obj"
    /\ MissingRequired(last.cls, last.input.v) # {}

\* C6 as stated: constructing an entity from input that lacks required fields
\* fails with a schema validation error that names every missing required
\* field.
MissingFieldsAllNamed ==
    LacksRequired =>
        /\ last.res.st = "invalid"
        /\ \A f \in MissingRequired(last.cls, last.input.v) : NamedMissing(f)

\* C6 amended: such a construction fails and returns no entity; unless a file
\* referenced inside the input is missing or unreadable, in which case the
\* OSError of that read is raised instead, the failure is a schema validation
\* error that names every missing required field; a Book from {"chapters": {}}
\* fails with the validation error, which names both title and language.
MissingFieldsNamedUnlessReadFails ==
    LacksRequired =>
        /\ last.res.st \in {"invalid", "raised"}
        /\ last.res.val = Null
        /\ last.res.st = "invalid" =>
              \A f \in MissingRequired(last.cls, last.input.v) : NamedMissing(f)
        /\ last.res.st = "raised" =>
              /\ last.res.errs[1].ty \in {"FileNotFoundError", "PermissionError"}
              /\ ReadText(fs, last.res.reads[Len(last.res.reads)])
                     \in {Missing, Unreadable}
        /\ (last.cls = "Book" /\ last.input = DNoTitle) =>
              /\ last.res.st = "invalid"
              /\ NamedMissing(K("title"))
              /\ NamedMissing(K("language"))

\* A Book was asked of {"chapters": {}}.
MissingFieldsWitness ==
    /\ LacksRequired
    /\ last.cls = "Book"
    /\ last.input = DNoTitle
    /\ Len(last.res.errs) > 1

-----------------------------------------------------------------------------
(* The entity tree of a construction call, read off the input, the files   *)
(* and the schema: every place where the schema expects an entity.         *)

Node(cls, data) == [cls |-> cls, data |-> data]

\* A reference to a file: a str or Path where a referencable entity is expected.
IsReference(n) == Referencable(n.cls) /\ PathLike(n.data)

\* The mapping an entity is built from: the data itself, or the document of
\* the file it names; None when there is no such document.
Document(n, files) ==
    IF IsReference(n)
    THEN LET f == ReadText(files, n.data.v)
         IN IF f.st = "file" /\ Loads(f.toks).ok THEN Loads(f.toks).val ELSE Null
    ELSE n.data

RECURSIVE ChildrenOfFields(_, _, _), ChildrenUnder(_, _),
          ChildrenOfEach(_, _, _), ChildrenOfAlts(_, _, _)

\* The entities directly nested in the mapping pairs of a cls, in the order
\* in which field validation reaches them.
ChildrenOfFields(cls, i, pairs) ==
    IF i > Len(Fields(cls)) THEN <<>>
    ELSE (IF HasKey(pairs, Fields(cls)[i].name)
          THEN ChildrenUnder(Fields(cls)[i].ty, Get(pairs, Fields(cls)[i].name))
          ELSE <<>>)
         \o ChildrenOfFields(cls, i + 1, pairs)

\* The entities in data d, which the schema expects to be of type ty.
ChildrenUnder(ty, d) ==
    CASE ty.k = "model" -> <<Node(ty.cls, d)>>
      [] ty.k = "dict" /\ d.t = "obj" ->
            ChildrenOfEach(ty.of, [i \in 1..Len(d.v) |-> d.v[i][2]], 1)
      [] ty.k = "list" /\ d.t = "arr" -> ChildrenOfEach(ty.of, d.v, 1)
      [] ty.k = "union" -> ChildrenOfAlts(ty.alts, 1, d)
      [] OTHER -> <<>>

ChildrenOfEach(ty, items, i) ==
    IF i > Len(items) THEN <<>>
    ELSE ChildrenUnder(ty, items[i]) \o ChildrenOfEach(ty, items, i + 1)

ChildrenOfAlts(alts, i, d) ==
    IF i > Len(alts) THEN <<>>
    ELSE ChildrenUnder(alts[i], d) \o ChildrenOfAlts(alts, i + 1, d)

\* The entities directly nested in the document doc of a cls.
Children(cls, doc) ==
    IF doc.t = "obj" THEN ChildrenOfFields(cls, 1, doc.v) ELSE <<>>

RECURSIVE Nodes(_, _), NodesOfAll(_, _, _)

\* n and the entities nested in it at any depth, outermost and leftmost first.
Nodes(n, files) ==
    <<n>> \o NodesOfAll(Children(n.cls, Document(n, files)), 1, files)

NodesOfAll(children, i, files) ==
    IF i > Len(children) THEN <<>>
    ELSE Nodes(children[i], files) \o NodesOfAll(children, i + 1, files)

\* The entity tree of the latest call.
Tree == Nodes(Node(last.cls, last.input), fs)

\* The file names of the references of the tree, in order.
References ==
    LET refs == SelectSeq(Tree, IsReference)
    IN [i \in 1..Len(refs) |-> refs[i].data.v]

IsPrefix(a, b) == Len(a) <= Len(b) /\ SubSeq(b, 1, Len(a)) = a

\* C7: construction is all or nothing. When the call returns an entity, every
\* entity nested in its input at any depth (inline or in a referenced file)
\* is valid on its own; so when resolution or validation of any nested entity
\* fails, the call fails, and a failed call returns no entity. Footnote
\* warnings do not make it fail.
AllOrNothing ==
    Called =>
        /\ last.res.st = "ok" =>
              \A i \in 1..Len(Tree) :
                  ConstructModel(Tree[i].cls, Tree[i].data, fs).st = "ok"
        /\ last.res.st # "ok" => last.res.val = Null
        /\ last.res.st = "ok" => last.res.val.t = last.cls

\* A Manifest was built from files four levels deep, with footnote warnings.
AllOrNothingWitness ==
    /\ Called
    /\ last.cls = "Manifest"
    /\ last.res.st = "ok"
    /\ last.res.warns # <<>>
    /\ Len(Tree) > 8

-----------------------------------------------------------------------------
(* One construction call, step by step: the validators that have been      *)
(* entered and not yet run are on a stack, the innermost and leftmost on   *)
(* top. A step runs the resolver of the top entity or validates its        *)
(* fields, which enters the validators of the entities nested in it.       *)

MaxSteps == 40
MaxReads == 12

\* An entity whose validator has been entered; depth counts the entities above it.
Frame(n, depth) == [cls |-> n.cls, data |-> n.data, depth |-> depth, resolved |-> FALSE]

\* Mutant of Resolved: the resolver looks at its own result again.
ResolvedAgain(f, doc) == [f EXCEPT !.data = doc]

\* validate_id has returned doc for the entity of frame f: field validation
\* takes doc as it is, the resolver does not look at it again.
Resolved(f, doc) == [f EXCEPT !.data = doc, !.resolved = TRUE]

\* The top entity is a reference that validate_id has not read yet.
TopUnresolved ==
    /\ stack # <<>>
    /\ ~Head(stack).resolved
    /\ IsReference(Node(Head(stack).cls, Head(stack).data))

Status(st) == IF st = <<>> THEN "done" ELSE "running"

\* Before any call: no files yet.
InitWalk == Init

\* A construction call cls(input) is made: the validator of cls is entered.
Begin(cls, input) ==
    /\ walk.st # "running"
    /\ stack' = <<Frame(Node(cls, input), 0)>>
    /\ walk' = [st |-> "running", root |-> Node(cls, input), reads |-> <<>>, steps |-> 0]
    /\ UNCHANGED <<fs, last, prev>>

\* validate_id reads and parses the file that the top entity names.
Resolve ==
    /\ walk.st = "running"
    /\ TopUnresolved
    /\ walk.steps < MaxSteps
    /\ LET f == Head(stack)
           r == validate_id(f.data, fs, <<>>)
       IN /\ stack' = CASE r.st = "raised" -> <<>>
                        [] r.st = "invalid" -> Tail(stack)
                        [] OTHER -> <<Resolved(f, r.val)>> \o Tail(stack)
          /\ walk' = [walk EXCEPT !.reads = walk.reads \o r.reads,
                                  !.steps = walk.steps + 1,
                                  !.st = IF r.st = "raised" THEN "raised"
                                         ELSE Status(stack')]
    /\ UNCHANGED <<fs, last, prev>>

\* The fields of the top entity are validated: the validators of the
\* entities nested in it are entered.
Descend ==
    /\ walk.st = "running"
    /\ stack # <<>>
    /\ ~TopUnresolved
    /\ walk.steps < MaxSteps
    /\ LET f == Head(stack)
           below == Children(f.cls, f.data)
       IN stack' = [i \in 1..Len(below) |-> Frame(below[i], f.depth + 1)]
                       \o Tail(stack)
    /\ walk' = [walk EXCEPT !.st = Status(stack'), !.steps = walk.steps + 1]
    /\ UNCHANGED <<fs, last, prev>>

\* Files change between calls, not during one.
NextWalk ==
    \/ walk.st # "running" /\ \E p \in Paths : \E c \in ContentsOf(p) : WriteFile(p, c)
    \/ \E cls \in Classes, i \in 1..Len(Inputs) : Begin(cls, Inputs[i])
    \/ Resolve
    \/ Descend

SpecWalk == InitWalk /\ [][NextWalk]_vars

\* The place of a class in the containment chain.
Rank(cls) ==
    CASE cls = "Verse" -> 1
      [] cls = "Chapter" -> 2
      [] cls = "Section" -> 3
      [] cls = "Book" -> 4
      [] cls = "Volume" -> 5
      [] cls = "Manifest" -> 6

\* Every entered entity lies below the root by at least its depth.
DepthBounded ==
    \A i \in 1..Len(stack) :
        /\ stack[i].depth <= Rank(walk.root.cls) - Rank(stack[i].cls)
        /\ stack[i].cls = "Verse" => ~IsReference(Node(stack[i].cls, stack[i].data))

\* C10: construction terminates for every content of the files, also when a
\* file names itself: a call that has not ended has a next step and has made
\* fewer than MaxSteps steps and at most MaxReads reads; an entity is entered
\* only below an entity of a higher place in the chain Manifest, Volume,
\* Book, Section, Chapter, Verse, and a Verse is never resolved.
Terminates ==
    /\ walk.st = "running" => (stack # <<>> /\ walk.steps < MaxSteps)
    /\ Len(walk.reads) <= MaxReads
    /\ DepthBounded

\* A Volume was built from a.json, which names itself as its book and as its
\* book's chapter: the call ended after reading it three times and more.
TerminatesWitness ==
    /\ walk.st = "done"
    /\ walk.root = Node("Volume", Str(PA))
    /\ fs[PA] = File(Dumps(DSelf))
    /\ Len(walk.reads) >= 3
    /\ walk.steps > Len(walk.reads)

\* The steps of a call read what the call as a whole reads.
WalkAgrees ==
    walk.st \in {"done", "raised"} =>
        LET res == ConstructModel(walk.root.cls, walk.root.data, fs)
        IN /\ walk.reads = res.reads
           /\ (walk.st = "raised") <=> (res.st = "raised")

=============================================================================
